---- MODULE Spec2Model ----
\* Model of the Synology shutdown client and its command line
\* (src/synology_shutdown.py) and of the web front end that drives the client
\* (src/web_app.py).
\*
\* The client is a sequential Python program.  It is modelled as a call stack
\* of frames; one step is taken per wire request (or remote-shell run), with
\* the deterministic code between two requests folded into the step that
\* consumes the response.  Exceptions are a register (exc) that unwinds the
\* stack frame by frame until a handler is met.
EXTENDS Integers, Sequences, FiniteSets, TLC

\* The shapes of the records of the model.  Every record constructor below
\* lists its fields in the order in which these definitions introduce them.

\* A bundle as a list response reports it.
ProjectRecord == [id : STRING, name : STRING, status : STRING]

\* A frame of the client's call stack: the function, the position in it, and
\* its arguments and locals (project_name, project_id, use_ssh, loop index).
FrameRecord == [id : STRING, name : STRING, fn : STRING, pc : STRING, flag : BOOLEAN, idx : Nat]

\* An event of the log: a wire request with the appliance's response, a
\* remote-shell run, a call of logout() or a return of login().
EventRecord == [id : STRING, ev : STRING, api : STRING, method : STRING, resp : STRING, data : STRING]

predefined_projects == << "iot", "jellyfin", "arr-project", "watchtower" >>

PredefinedNames == {predefined_projects[i] : i \in DOMAIN predefined_projects}

\* shutdown_status and project_status of the web front end.
StatusRecord == [in_progress : BOOLEAN, success : STRING]

ProjectStatusRecord ==
    [in_progress : BOOLEAN, success : STRING, results : [PredefinedNames -> BOOLEAN]]

\* A POST request to the front end, and the thread it started with the
\* values that thread holds in its locals.
RequestRecord == [pc : STRING, resp : STRING, route : STRING]

WorkerRecord ==
    [pc : STRING, results : [PredefinedNames -> BOOLEAN], kind : STRING, result : STRING]

\* The required fields of the effective configuration (load_config, and the
\* host, username and password a client instance is constructed with).
ConfigRecord == [host : STRING, username : STRING, password : STRING]

VARIABLES
    stack,        \* call stack of the client thread, innermost frame first
    ret,          \* value returned by the frame popped last
    exc,          \* exception in flight ("none" when there is none)
    session_id,   \* SynologyShutdown.session_id
    log,          \* events of the current top-level call, oldest first; of the
                  \* calls a batch makes it keeps the outcome of each only
    status,       \* the appliance: bundle id -> status
    calls,        \* top-level calls made on this client instance so far
    top,          \* the current (or last) top-level call
    projs,        \* the 'projects' list of the last get_projects() result
    results,      \* the `results` map of manage_predefined_projects()
    config,       \* the effective configuration: host, username, password
    shutdown_status,  \* web_app.shutdown_status (in_progress, success)
    project_status,   \* web_app.project_status (in_progress, success, results)
    handlers,     \* the web requests: route, position in the handler, response
    workers       \* the background thread each request started, if any

client == <<stack, ret, exc, session_id, log, status, calls, top, projs, results, config>>

web == <<shutdown_status, project_status, handlers, workers>>

vars == <<stack, ret, exc, session_id, log, status, calls, top, projs, results, config,
          shutdown_status, project_status, handlers, workers>>

-----------------------------------------------------------------------------
\* Bounds of the model.

\* Number of top-level calls a caller makes on one client instance.
MaxCalls == 2

\* Number of requests (GET / and the POST routes) the web front end receives.
MaxRequests == 2

-----------------------------------------------------------------------------
\* Python values.  None is a tagged string; a value is truthy unless it is
\* None or the empty string.

None == "None"

Truthy(v) == v \notin {None, ""}

\* A guard that tests the token against None only.
not_logged_in_is_none(sid) == sid = None

\* `if not self.session_id`
not_logged_in(sid) == ~Truthy(sid)

\* What the appliance (or the network) does with one request:
\*   "ok"       a JSON object whose success flag is true
\*   "fail"     any other decodable body that makes `result and
\*              result.get('success')` false without raising: an object with
\*              success false (or absent), or a falsy JSON value other than null
\*   "nonjson"  HTTP 200 with a body that is not JSON (plain text)
\*   "neterr"   connection error, HTTP error status or timeout
\*   "nondict"  a truthy JSON value that is not an object (result.get raises)
Wire == {"ok", "fail", "nonjson", "neterr", "nondict"}

\* A KeyboardInterrupt may arrive while the client is suspended in a call.
Interrupt == "interrupt"

\* KeyboardInterrupt derives from BaseException, not from Exception.
IsException(e) == e \notin {"none", "KeyboardInterrupt"}

\* A transport that treats a body that is not JSON as a refusal.
make_request_nonjson_fails(w) ==
    IF w = "neterr" THEN None ELSE IF w = "nonjson" THEN "fail" ELSE w

\* The value _make_request / _make_request_with_endpoint hands to its caller:
\* response.json() of a decodable body, None when requests raised a
\* RequestException or start_stream was not JSON.  The JSONDecodeError that
\* response.json() raises is requests.exceptions.JSONDecodeError, the class
\* line 91 names, which is a RequestException: the handlers of lines 51 and
\* 98 turn a body that is not JSON into None for every method.
make_request(w) == IF w \in {"nonjson", "neterr"} THEN None ELSE w

\* A test that takes every answer of the appliance for a success.
IsAnswered(result) == result \in {"ok", "fail"}

\* `result and result.get('success')`
IsSuccess(result) == result = "ok"

\* result.get(...) on a value that has no get attribute
GetRaises(result) == result = "nondict"

\* The token field of a login response that carries the success flag:
\* a token, no 'sid' (or no 'data') at all, an empty string, a non-string
\* value, or a 'data' member that is not an object.
LoginPayloads == {"tok1", None, "", "int:42", "notdict"}

\* The two shapes of the payload of a successful list response.
ListShapes == {"dict", "array"}

\* Outcomes of the remote-shell run (subprocess.run of sshpass ssh ...).
SshOutcomes == {"exit0", "exit1", "timeout", "nosshpass", "oserror"}

-----------------------------------------------------------------------------
\* The appliance.

Bundles ==
    << [id |-> "id1", name |-> "iot"], [id |-> "id2", name |-> "jellyfin"],
       [id |-> "id3", name |-> "arr-project"], [id |-> "id4", name |-> "watchtower"] >>

BundleIds == {Bundles[i].id : i \in DOMAIN Bundles}

Statuses == {"RUNNING", "STOPPED"}

\* The bundle records of a list response, in the appliance's order.
Listing(st) == [i \in DOMAIN Bundles |->
                  [id |-> Bundles[i].id, name |-> Bundles[i].name, status |-> st[Bundles[i].id]]]

\* What callers pass as project_name and project_id.
CallerNames == {None, "iot", "ghost"}
CallerIds == {None, "id1", "id2"}

\* The states of the appliance a caller who designates bundles by these names
\* and ids can tell apart: the bundles it never designates are stopped.
AddressedStatuses ==
    {st \in [BundleIds -> Statuses] :
        \A b \in BundleIds : b \notin CallerIds => st[b] = "STOPPED"}

\* The effective configurations: each required field is set or empty.
Configs == [host : {"", "nas"}, username : {"", "admin"}, password : {"", "secret"}]

CompleteConfig == [host |-> "nas", username |-> "admin", password |-> "secret"]

\* `all([host, username, password])` of main(), `not missing_fields` of the
\* POST routes.
configured(c) == c.host # "" /\ c.username # "" /\ c.password # ""

-----------------------------------------------------------------------------
\* Frames, events and control transfer.

Frame(fn, pc, name, id, flag, idx) ==
    [id |-> id, name |-> name, fn |-> fn, pc |-> pc, flag |-> flag, idx |-> idx]

\* A wire request (ev = "req"), a remote-shell run (ev = "ssh"), a call of
\* logout() (ev = "call") or a return of login() (ev = "ret").
Event(ev, api, method, id, resp, data) ==
    [id |-> id, ev |-> ev, api |-> api, method |-> method, resp |-> resp, data |-> data]

Req(api, method, id, resp, data) == Event("req", api, method, id, resp, data)

At(fn, pc) ==
    /\ exc = "none"
    /\ stack # <<>>
    /\ Head(stack).fn = fn
    /\ Head(stack).pc = pc

Self == Head(stack)

\* The client thread shares nothing with the web front end's globals: each
\* of its control transfers leaves them alone.
Return(v) ==
    /\ stack' = Tail(stack)
    /\ ret' = v
    /\ exc' = exc
    /\ UNCHANGED <<config, web>>

Raise(e) ==
    /\ exc' = e
    /\ UNCHANGED <<stack, ret>>
    /\ UNCHANGED <<config, web>>

GotoWith(f) ==
    /\ stack' = <<f>> \o Tail(stack)
    /\ UNCHANGED <<ret, exc>>
    /\ UNCHANGED <<config, web>>

Goto(pc) == GotoWith([Self EXCEPT !.pc = pc])

\* Call callee; the caller resumes at retpc (as frame f) when it returns.
CallFrom(f, callee, retpc) ==
    /\ stack' = <<callee, [f EXCEPT !.pc = retpc]>> \o Tail(stack)
    /\ UNCHANGED <<ret, exc>>
    /\ UNCHANGED <<config, web>>

CallSub(callee, retpc) == CallFrom(Self, callee, retpc)

NewFrame(fn) == Frame(fn, "entry", None, None, FALSE, 0)

\* manage_predefined_projects() is running.
InBatch == \E k \in DOMAIN stack : stack[k].fn = "manage_predefined_projects"

\* The log after event e.
Logged(e) == IF InBatch THEN log ELSE Append(log, e)

-----------------------------------------------------------------------------
\* login()

\* self.session_id after a response with the success flag.
login_session(payload) == payload

login ==
    /\ At("login", "entry")
    /\ \E w \in Wire \cup {Interrupt}, payload \in LoginPayloads :
         /\ (w # "ok" => payload = None)
         /\ UNCHANGED <<status, calls, top, projs, results>>
         /\ LET result == make_request(w)
                sent == Req("SYNO.API.Auth", "login", "", w, payload)
            IN  CASE w = Interrupt ->
                       /\ Raise("KeyboardInterrupt")
                       /\ log' = Append(log, sent)
                       /\ UNCHANGED session_id
                  [] w # Interrupt /\ GetRaises(result) ->
                       /\ Raise("AttributeError")
                       /\ log' = Append(log, sent)
                       /\ UNCHANGED session_id
                  [] w # Interrupt /\ IsSuccess(result) /\ payload = "notdict" ->
                       /\ Raise("AttributeError")
                       /\ log' = Append(log, sent)
                       /\ UNCHANGED session_id
                  [] w # Interrupt /\ IsSuccess(result) /\ payload # "notdict" ->
                       /\ session_id' = login_session(payload)
                       /\ log' = log \o <<sent, Event("ret", "", "login", "", "True", "")>>
                       /\ Return("True")
                  [] OTHER ->
                       /\ log' = log \o <<sent, Event("ret", "", "login", "", "False", "")>>
                       /\ UNCHANGED session_id
                       /\ Return("False")

-----------------------------------------------------------------------------
\* logout()

\* A logout() that sends nothing.
logout_sends_never(sid) == FALSE

\* `if self.session_id:`
logout_sends(sid) == Truthy(sid)

logout ==
    /\ At("logout", "entry")
    /\ UNCHANGED <<session_id, status, calls, top, projs, results>>
    /\ IF logout_sends(session_id)
       THEN \E w \in Wire \cup {Interrupt} :
              /\ log' = log \o << Event("call", "", "logout", "", "", ""),
                                  Req("auth.cgi", "logout", "", w, "") >>
              /\ IF w = Interrupt THEN Raise("KeyboardInterrupt") ELSE Return(None)
       ELSE /\ log' = Append(log, Event("call", "", "logout", "", "", ""))
            /\ Return(None)

-----------------------------------------------------------------------------
\* shutdown_via_api()

api_endpoints == << "SYNO.Core.System", "SYNO.Core.System.Utilization", "SYNO.DSM.System" >>

\* A loop that never leaves early.
api_after_candidate_no_return(result) == "next"

\* A loop that ends at the first response, whatever it is.
api_after_candidate_first_only(result) == "return"

\* What the loop does after the response of one candidate: "return" leaves the
\* function with True, "next" goes on with the following candidate.
api_after_candidate(result) == IF IsSuccess(result) THEN "return" ELSE "next"

shutdown_via_api_entry ==
    /\ At("shutdown_via_api", "entry")
    /\ UNCHANGED <<session_id, log, status, calls, top, projs, results>>
    /\ IF not_logged_in(session_id)
       THEN Return("False")
       ELSE GotoWith([Self EXCEPT !.pc = "loop", !.idx = 1])

shutdown_via_api_loop ==
    /\ At("shutdown_via_api", "loop")
    /\ UNCHANGED <<session_id, status, calls, top, projs, results>>
    /\ \E w \in Wire \cup {Interrupt} :
         /\ log' = Append(log, Req(api_endpoints[Self.idx], "shutdown", "", w, ""))
         /\ LET result == make_request(w)
            IN  CASE w = Interrupt -> Raise("KeyboardInterrupt")
                  [] w # Interrupt /\ GetRaises(result) -> Raise("AttributeError")
                  [] w # Interrupt /\ ~GetRaises(result) /\ api_after_candidate(result) = "return" ->
                       Return("True")
                  [] OTHER ->
                       IF Self.idx < Len(api_endpoints)
                       THEN GotoWith([Self EXCEPT !.idx = Self.idx + 1])
                       ELSE Return("False")

-----------------------------------------------------------------------------
\* shutdown_via_ssh()

\* A run whose exit status is not looked at.
ssh_returns_on_completion(o) == IF o \in {"exit0", "exit1"} THEN "True" ELSE "False"

\* Lines 395-410: True for exit status 0; False for any other status, for
\* TimeoutExpired, FileNotFoundError and any other Exception.
ssh_returns(o) == IF o = "exit0" THEN "True" ELSE "False"

shutdown_via_ssh ==
    /\ At("shutdown_via_ssh", "entry")
    /\ UNCHANGED <<session_id, status, calls, top, projs, results>>
    /\ \E o \in SshOutcomes \cup {Interrupt} :
         /\ log' = Append(log, Event("ssh", "", "shutdown", "", o, ""))
         /\ IF o = Interrupt THEN Raise("KeyboardInterrupt") ELSE Return(ssh_returns(o))

-----------------------------------------------------------------------------
\* shutdown(use_ssh): the frame's flag is use_ssh, its name field holds the
\* local `success` ("True" / "False").

\* A fallback that follows every failed primary attempt.
wants_fallback_on_failure(success, use_ssh) == success # "True"

\* `if not success and use_ssh`
wants_fallback(success, use_ssh) == success # "True" /\ use_ssh

\* A primary attempt that is made in every mode.
wants_api_always(use_ssh) == TRUE

\* `if not use_ssh`
wants_api(use_ssh) == ~use_ssh

\* A shutdown that goes on whatever login returned.
login_succeeded_ignored(r) == TRUE

\* `if self.login():`
login_succeeded(r) == r = "True"

shutdown_entry ==
    /\ At("shutdown", "entry")
    /\ UNCHANGED <<session_id, log, status, calls, top, projs, results>>
    /\ CallFrom([Self EXCEPT !.name = "False"], NewFrame("login"), "after_login")

\* The statements after `if self.login():` up to the next call.
shutdown_after_login ==
    /\ At("shutdown", "after_login")
    /\ UNCHANGED <<session_id, log, status, calls, top, projs, results>>
    /\ IF login_succeeded(ret)
       THEN IF wants_api(Self.flag)
            THEN CallSub(NewFrame("shutdown_via_api"), "after_api")
            ELSE IF wants_fallback(Self.name, Self.flag)
                 THEN CallSub(NewFrame("shutdown_via_ssh"), "after_ssh")
                 ELSE CallSub(NewFrame("logout"), "after_logout")
       ELSE Return(Self.name)

shutdown_after_api ==
    /\ At("shutdown", "after_api")
    /\ UNCHANGED <<session_id, log, status, calls, top, projs, results>>
    /\ IF wants_fallback(ret, Self.flag)
       THEN CallFrom([Self EXCEPT !.name = ret], NewFrame("shutdown_via_ssh"), "after_ssh")
       ELSE CallFrom([Self EXCEPT !.name = ret], NewFrame("logout"), "after_logout")

shutdown_after_ssh ==
    /\ At("shutdown", "after_ssh")
    /\ UNCHANGED <<session_id, log, status, calls, top, projs, results>>
    /\ CallFrom([Self EXCEPT !.name = ret], NewFrame("logout"), "after_logout")

shutdown_after_logout ==
    /\ At("shutdown", "after_logout")
    /\ UNCHANGED <<session_id, log, status, calls, top, projs, results>>
    /\ Return(Self.name)

\* A shutdown() without the `except KeyboardInterrupt` clause.
shutdown_catches_exception_only(e) == e # "KeyboardInterrupt"

\* A shutdown() without the `except Exception` clause.
shutdown_catches_interrupt_only(e) == e = "KeyboardInterrupt"

\* The except clauses of lines 435-440: KeyboardInterrupt, and every Exception.
shutdown_catches(e) == e = "KeyboardInterrupt" \/ IsException(e)

\* `except KeyboardInterrupt` / `except Exception` of shutdown().
shutdown_except ==
    /\ exc # "none"
    /\ stack # <<>>
    /\ Head(stack).fn = "shutdown"
    /\ shutdown_catches(exc)
    /\ stack' = Tail(stack)
    /\ ret' = "False"
    /\ exc' = "none"
    /\ UNCHANGED <<session_id, log, status, calls, top, projs, results>>
    /\ UNCHANGED <<config, web>>

-----------------------------------------------------------------------------
\* get_projects()

\* `list(data.values()) if isinstance(data, dict) else []`
normalize_projects(shape, listing) == IF shape = "dict" THEN listing ELSE <<>>

get_projects ==
    /\ At("get_projects", "entry")
    /\ UNCHANGED <<session_id, status, calls, top, results>>
    /\ IF not_logged_in(session_id)
       THEN /\ Return(None)
            /\ UNCHANGED <<log, projs>>
       ELSE \E w \in Wire \cup {Interrupt}, shape \in ListShapes :
              /\ (w # "ok" => shape = "dict")
              /\ log' = Logged(Req("SYNO.Docker.Project", "list", "", w,
                                        IF w = "ok" THEN shape ELSE ""))
              /\ LET result == make_request(w)
                 IN  CASE w = Interrupt ->
                            Raise("KeyboardInterrupt") /\ UNCHANGED projs
                       [] w # Interrupt /\ GetRaises(result) ->
                            Raise("AttributeError") /\ UNCHANGED projs
                       [] w # Interrupt /\ IsSuccess(result) ->
                            /\ projs' = normalize_projects(shape, Listing(status))
                            /\ Return("dict")
                       [] OTHER ->
                            Return(None) /\ UNCHANGED projs

-----------------------------------------------------------------------------
\* start_project() and stop_project()

\* Index of the first project of ps named nm, 0 when there is none
\* (`for project in projects: if project.get('name') == project_name: ... break`).
FindByName(ps, nm) ==
    LET S == {i \in DOMAIN ps : ps[i].name = nm}
    IN  IF S = {} THEN 0 ELSE CHOOSE i \in S : \A j \in S : i <= j

\* A lookup that settles for the first bundle listed.
lookup_id_first(ps, nm) == IF ps = <<>> THEN None ELSE ps[1].id

\* project_id after the lookup loop of lines 187-195.
lookup_id(ps, nm) ==
    LET i == FindByName(ps, nm) IN IF i = 0 THEN None ELSE ps[i].id

\* A guard that is content with any bundle in the target status.
already_in_target_any_name(r, ps, nm, target) ==
    /\ r # None
    /\ \E i \in DOMAIN ps : ps[i].status = target

\* The guard of lines 209-219 (303-311 for stop): the list succeeded and the
\* first project with the given name reports the target status.
already_in_target(r, ps, nm, target) ==
    /\ r # None
    /\ LET i == FindByName(ps, nm) IN i # 0 /\ ps[i].status = target

\* A verification that is content with any list that was served.
verified_whenever_listed(r, ps, nm) == r # None

\* The verification of lines 241-250 after a start_stream without result.
verified_running(r, ps, nm) ==
    /\ r # None
    /\ LET i == FindByName(ps, nm) IN i # 0 /\ ps[i].status = "RUNNING"

\* An identifier sent as it is.
plain_id(id) == id

\* f'%22{project_id}%22'
quoted_id(id) == "%22" \o id \o "%22"

\* The appliance's side of a mutating call: the call may take effect on the
\* bundle its id parameter designates unless the appliance refused it.
MayTakeEffect(w) == w \in {"ok", "nonjson", "neterr"}

Designated(wire_id) == {b \in BundleIds : wire_id \in {b, quoted_id(b)}}

Mutate(wire_id, w, target) ==
    \/ status' = status
    \/ /\ MayTakeEffect(w)
       /\ \E b \in Designated(wire_id) :
            /\ status[b] # target
            /\ status' = [status EXCEPT ![b] = target]

\* Lines 177-199 (269-291): the guards and the call of the first list query.
project_entry(fn) ==
    /\ At(fn, "entry")
    /\ UNCHANGED <<session_id, log, status, calls, top, projs, results>>
    /\ IF not_logged_in(session_id) THEN Return("False")
       ELSE IF ~Truthy(Self.name) /\ ~Truthy(Self.id) THEN Return("False")
       ELSE IF Truthy(Self.name) /\ ~Truthy(Self.id)
            THEN CallSub(NewFrame("get_projects"), "lookup")
            ELSE CallSub(NewFrame("get_projects"), "check")

project_lookup(fn) ==
    /\ At(fn, "lookup")
    /\ UNCHANGED <<session_id, log, status, calls, top, projs, results>>
    /\ IF ret = None THEN Return("False")
       ELSE LET id == lookup_id(projs, Self.name)
            IN  IF ~Truthy(id) THEN Return("False")
                ELSE CallFrom([Self EXCEPT !.id = id], NewFrame("get_projects"), "check")

project_check(fn, target, nextpc) ==
    /\ At(fn, "check")
    /\ UNCHANGED <<session_id, log, status, calls, top, projs, results>>
    /\ IF already_in_target(ret, projs, Self.name, target)
       THEN Return("True")
       ELSE Goto(nextpc)

start_project_entry == project_entry("start_project")

start_project_lookup == project_lookup("start_project")

start_project_check == project_check("start_project", "RUNNING", "stream")

\* Lines 224-256: start_stream with the quoted id.
start_project_stream ==
    /\ At("start_project", "stream")
    /\ UNCHANGED <<session_id, calls, top, projs, results>>
    /\ \E w \in Wire \cup {Interrupt}, asleep \in {"", Interrupt} :
         /\ (asleep = Interrupt => w \in {"nonjson", "neterr"})
         /\ log' = Logged(Req("SYNO.Docker.Project", "start_stream", quoted_id(Self.id), w, asleep))
         /\ Mutate(quoted_id(Self.id), w, "RUNNING")
         /\ LET result == make_request(w)
            IN  CASE w = Interrupt \/ asleep = Interrupt -> Raise("KeyboardInterrupt")
                  [] w # Interrupt /\ asleep = "" /\ result = None ->
                       CallSub(NewFrame("get_projects"), "verify")
                  [] w # Interrupt /\ GetRaises(result) -> Raise("AttributeError")
                  [] w # Interrupt /\ IsSuccess(result) -> Return("True")
                  [] OTHER -> Goto("start")

start_project_verify ==
    /\ At("start_project", "verify")
    /\ UNCHANGED <<session_id, log, status, calls, top, projs, results>>
    /\ IF verified_running(ret, projs, Self.name)
       THEN Return("True")
       ELSE Goto("start")

\* Lines 258-265: the regular start with the unquoted id.
start_project_start ==
    /\ At("start_project", "start")
    /\ UNCHANGED <<session_id, calls, top, projs, results>>
    /\ \E w \in Wire \cup {Interrupt} :
         /\ log' = Logged(Req("SYNO.Docker.Project", "start", Self.id, w, ""))
         /\ Mutate(Self.id, w, "RUNNING")
         /\ LET result == make_request(w)
            IN  CASE w = Interrupt -> Raise("KeyboardInterrupt")
                  [] w # Interrupt /\ GetRaises(result) -> Raise("AttributeError")
                  [] w # Interrupt /\ IsSuccess(result) -> Return("True")
                  [] OTHER -> Return("False")

stop_project_entry == project_entry("stop_project")

stop_project_lookup == project_lookup("stop_project")

stop_project_check == project_check("stop_project", "STOPPED", "stop_quoted")

\* Lines 313-329: stop with the quoted id.
stop_project_quoted ==
    /\ At("stop_project", "stop_quoted")
    /\ UNCHANGED <<session_id, calls, top, projs, results>>
    /\ \E w \in Wire \cup {Interrupt} :
         /\ log' = Logged(Req("SYNO.Docker.Project", "stop", quoted_id(Self.id), w, ""))
         /\ Mutate(quoted_id(Self.id), w, "STOPPED")
         /\ LET result == make_request(w)
            IN  CASE w = Interrupt -> Raise("KeyboardInterrupt")
                  [] w # Interrupt /\ GetRaises(result) -> Raise("AttributeError")
                  [] w # Interrupt /\ IsSuccess(result) -> Return("True")
                  [] OTHER -> Goto("stop_plain")

\* Lines 331-341: stop with the unquoted id.
stop_project_plain ==
    /\ At("stop_project", "stop_plain")
    /\ UNCHANGED <<session_id, calls, top, projs, results>>
    /\ \E w \in Wire \cup {Interrupt} :
         /\ log' = Logged(Req("SYNO.Docker.Project", "stop", Self.id, w, ""))
         /\ Mutate(Self.id, w, "STOPPED")
         /\ LET result == make_request(w)
            IN  CASE w = Interrupt -> Raise("KeyboardInterrupt")
                  [] w # Interrupt /\ GetRaises(result) -> Raise("AttributeError")
                  [] w # Interrupt /\ IsSuccess(result) -> Return("True")
                  [] OTHER -> Return("False")

-----------------------------------------------------------------------------
\* manage_predefined_projects(action): the frame's name field holds action,
\* idx the position of the loop in predefined_projects.

\* `results = {}`
NoEntries == [n \in {} |-> FALSE]

\* `results[project_name] = value`
set_result(rs, nm, value) ==
    [n \in DOMAIN rs \cup {nm} |-> IF n = nm THEN value ELSE rs[n]]

\* all(results.values())
all_values(rs) == \A n \in DOMAIN rs : rs[n]

\* A batch without the try statement of lines 367-376.
manage_catches_nothing(e) == FALSE

\* `except Exception` of line 374 catches every exception that is not a
\* KeyboardInterrupt.
manage_catches(e) == IsException(e)

\* The return of start_project / stop_project for one bundle of the batch
\* (resp "True" or "False"), or the exception it raised (resp "raise").
Outcome(fn, nm, resp) == Event("ret", "", fn, "", resp, nm)

IsOutcome(e) == e.ev = "ret" /\ e.method \in {"start_project", "stop_project"}

project_fn(action) == IF action = "start" THEN "start_project" ELSE "stop_project"

manage_predefined_projects_entry ==
    /\ At("manage_predefined_projects", "entry")
    /\ UNCHANGED <<session_id, log, status, calls, top, projs>>
    /\ results' = NoEntries
    /\ IF Self.name \notin {"start", "stop"}
       THEN Return("results")
       ELSE GotoWith([Self EXCEPT !.pc = "loop", !.idx = 1])

\* Lines 366-371 and 378.
manage_predefined_projects_loop ==
    /\ At("manage_predefined_projects", "loop")
    /\ UNCHANGED <<session_id, log, status, calls, top, projs, results>>
    /\ IF Self.idx > Len(predefined_projects)
       THEN Return("results")
       ELSE CallSub(Frame(project_fn(Self.name), "entry",
                        predefined_projects[Self.idx], None, FALSE, 0), "assign")

\* Line 373.
manage_predefined_projects_assign ==
    /\ At("manage_predefined_projects", "assign")
    /\ UNCHANGED <<session_id, status, calls, top, projs>>
    /\ results' = set_result(results, predefined_projects[Self.idx], ret = "True")
    /\ log' = Append(log, Outcome(project_fn(Self.name), predefined_projects[Self.idx], ret))
    /\ GotoWith([Self EXCEPT !.pc = "loop", !.idx = Self.idx + 1])

\* Lines 374-376.
manage_predefined_projects_except ==
    /\ exc # "none"
    /\ stack # <<>>
    /\ Head(stack).fn = "manage_predefined_projects"
    /\ Head(stack).pc = "assign"
    /\ manage_catches(exc)
    /\ results' = set_result(results, predefined_projects[Self.idx], FALSE)
    /\ log' = Append(log, Outcome(project_fn(Self.name), predefined_projects[Self.idx], "raise"))
    /\ stack' = <<[Self EXCEPT !.pc = "loop", !.idx = Self.idx + 1]>> \o Tail(stack)
    /\ exc' = "none"
    /\ UNCHANGED <<ret, session_id, status, calls, top, projs>>
    /\ UNCHANGED <<config, web>>

-----------------------------------------------------------------------------
\* get_project_status(project_name)

get_project_status_entry ==
    /\ At("get_project_status", "entry")
    /\ UNCHANGED <<session_id, log, status, calls, top, projs, results>>
    /\ CallSub(NewFrame("get_projects"), "find")

get_project_status_find ==
    /\ At("get_project_status", "find")
    /\ UNCHANGED <<session_id, log, status, calls, top, projs, results>>
    /\ IF ret = None
       THEN Return(None)
       ELSE LET i == FindByName(projs, Self.name)
            IN  IF i = 0 THEN Return(None) ELSE Return(projs[i].status)

-----------------------------------------------------------------------------
\* main(): one run of the command line.  The frame's id field holds the
\* command, name its project argument, flag is use_ssh and idx the exit code
\* the try block of lines 517-575 has decided on.  The run ends with the
\* return value "exit0" or "exit1" (sys.exit), or with an exception that no
\* frame handles.

Commands ==
    {"shutdown", "list_projects", "start_projects", "stop_projects",
     "start_project", "stop_project", "project_status"}

\* The commands that take a project name.
NamedCommands == {"start_project", "stop_project", "project_status"}

\* The call of lines 518-570 for one command.
command_frame(f) ==
    CASE f.id = "list_projects" -> NewFrame("get_projects")
      [] f.id = "start_projects" -> Frame("manage_predefined_projects", "entry", "start", None, FALSE, 0)
      [] f.id = "stop_projects" -> Frame("manage_predefined_projects", "entry", "stop", None, FALSE, 0)
      [] f.id = "start_project" -> Frame("start_project", "entry", f.name, None, FALSE, 0)
      [] f.id = "stop_project" -> Frame("stop_project", "entry", f.name, None, FALSE, 0)
      [] OTHER -> Frame("get_project_status", "entry", f.name, None, FALSE, 0)

\* The exit code lines 518-580 decide on from what the command returned.
command_exit(cmd, r, rs) ==
    CASE cmd = "list_projects" -> IF r # None THEN 0 ELSE 1
      [] cmd \in {"start_projects", "stop_projects"} -> IF all_values(rs) THEN 0 ELSE 1
      [] cmd \in {"start_project", "stop_project"} -> IF r = "True" THEN 0 ELSE 1
      [] OTHER -> IF Truthy(r) THEN 0 ELSE 1

exit_value(code) == IF code = 0 THEN "exit0" ELSE "exit1"

\* Lines 503-515 and 583.
main_entry ==
    /\ At("main", "entry")
    /\ UNCHANGED <<session_id, log, status, calls, top, projs, results>>
    /\ IF ~configured(config)
       THEN Return(exit_value(1))
       ELSE IF Self.id = "shutdown"
            THEN CallSub(Frame("shutdown", "entry", None, None, Self.flag, 0), "after_shutdown")
            ELSE CallSub(NewFrame("login"), "after_login")

\* Lines 513-570: `if not nas.login()`, then the call of the command.
main_after_login ==
    /\ At("main", "after_login")
    /\ UNCHANGED <<session_id, log, status, calls, top, projs, results>>
    /\ IF ret # "True"
       THEN Return(exit_value(1))
       ELSE CallSub(command_frame(Self), "after_command")

\* The command returned: the try block decides on the exit code, and the
\* finally clause of line 578 calls logout().
main_after_command ==
    /\ At("main", "after_command")
    /\ UNCHANGED <<session_id, log, status, calls, top, projs, results>>
    /\ CallFrom([Self EXCEPT !.idx = command_exit(Self.id, ret, results)],
                NewFrame("logout"), "finally_exit")

\* Lines 541, 580 and the like: sys.exit once logout() has returned.
main_finally_exit ==
    /\ At("main", "finally_exit")
    /\ UNCHANGED <<session_id, log, status, calls, top, projs, results>>
    /\ Return(exit_value(Self.idx))

\* The command raised: the finally clause calls logout() with the exception
\* pending (kept in the frame's name field).
main_finally ==
    /\ exc # "none"
    /\ stack # <<>>
    /\ Head(stack).fn = "main"
    /\ Head(stack).pc = "after_command"
    /\ stack' = <<NewFrame("logout"), [Self EXCEPT !.pc = "finally_raise", !.name = exc]>> \o Tail(stack)
    /\ exc' = "none"
    /\ UNCHANGED <<ret, session_id, log, status, calls, top, projs, results>>
    /\ UNCHANGED <<config, web>>

\* logout() returned in the finally clause: the pending exception goes on.
main_finally_raise ==
    /\ At("main", "finally_raise")
    /\ stack' = Tail(stack)
    /\ exc' = Self.name
    /\ UNCHANGED <<ret, session_id, log, status, calls, top, projs, results>>
    /\ UNCHANGED <<config, web>>

\* Lines 583-588.
main_after_shutdown ==
    /\ At("main", "after_shutdown")
    /\ UNCHANGED <<session_id, log, status, calls, top, projs, results>>
    /\ Return(exit_value(IF ret = "True" THEN 0 ELSE 1))

-----------------------------------------------------------------------------
\* Exceptions.

\* The frame at the top of the stack has a handler for the exception in flight.
Handled ==
    \/ Head(stack).fn = "shutdown" /\ shutdown_catches(exc)
    \/ /\ Head(stack).fn = "manage_predefined_projects"
       /\ Head(stack).pc = "assign"
       /\ manage_catches(exc)
    \/ Head(stack).fn = "main" /\ Head(stack).pc = "after_command"

\* An exception leaves a frame that has no handler for it.
Unwind ==
    /\ exc # "none"
    /\ stack # <<>>
    /\ ~Handled
    /\ stack' = Tail(stack)
    /\ UNCHANGED <<ret, exc, session_id, log, status, calls, top, projs, results>>
    /\ UNCHANGED <<config, web>>

-----------------------------------------------------------------------------
\* The caller of the client: any public method, on a fresh or a used instance.

Invoke(f) ==
    /\ stack = <<>>
    /\ calls < MaxCalls
    /\ stack' = <<f>>
    /\ top' = f
    /\ log' = <<>>
    /\ ret' = "-"
    /\ exc' = "none"
    /\ calls' = calls + 1
    /\ UNCHANGED <<session_id, status, projs, results>>
    /\ UNCHANGED <<config, web>>

Caller ==
    \/ \E fn \in {"login", "logout", "shutdown_via_api", "shutdown_via_ssh", "get_projects"} :
         Invoke(NewFrame(fn))
    \/ \E fn \in {"start_project", "stop_project"}, nm \in CallerNames, id \in CallerIds :
         Invoke(Frame(fn, "entry", nm, id, FALSE, 0))
    \/ \E use_ssh \in BOOLEAN : Invoke(Frame("shutdown", "entry", None, None, use_ssh, 0))

\* One run of the command line: a new process with a client of its own, on
\* which main() is the first call.
RunMain(f) ==
    /\ stack = <<>>
    /\ calls = 0
    /\ stack' = <<f>>
    /\ top' = f
    /\ log' = <<>>
    /\ ret' = "-"
    /\ exc' = "none"
    /\ calls' = 1
    /\ session_id' = None
    /\ projs' = <<>>
    /\ results' = NoEntries
    /\ UNCHANGED status
    /\ UNCHANGED <<config, web>>

CliCaller ==
    \E cmd \in Commands, nm \in CallerNames, use_ssh \in BOOLEAN :
      /\ (cmd \in NamedCommands) <=> Truthy(nm)
      /\ use_ssh => cmd = "shutdown"
      /\ RunMain(Frame("main", "entry", nm, cmd, use_ssh, 0))

-----------------------------------------------------------------------------
\* The web front end (src/web_app.py).  Flask serves each request on its own
\* thread and every accepted POST starts one daemon thread; request h and the
\* thread it started share the index h.  The steps of the handlers and of the
\* threads interleave freely; each step is one read or one write of the
\* module-level status dictionaries.

Requests == 1 .. MaxRequests

\* Result maps of manage_predefined_projects the workers are run with: every
\* bundle handled, one bundle failed, every bundle failed.
WorkerResults ==
    { [n \in PredefinedNames |-> TRUE],
      [n \in PredefinedNames |-> n # "jellyfin"],
      [n \in PredefinedNames |-> FALSE] }

NoResults == [n \in PredefinedNames |-> FALSE]

NewRequest == [pc |-> "new", resp |-> "", route |-> "none"]

NoWorker == [pc |-> "none", results |-> NoResults, kind |-> "none", result |-> "-"]

\* Requests are told apart by their index only: they arrive in index order.
Arrives(h) ==
    /\ handlers[h].pc = "new"
    /\ \A g \in Requests : g < h => handlers[g].pc # "new"

Respond(h, route, resp) ==
    handlers' = [handlers EXCEPT ![h] = [pc |-> "done", resp |-> resp, route |-> route]]

\* `if shutdown_status['in_progress']` / `if project_status['in_progress']`
in_flight(st) == st.in_progress

\* GET /, lines 125-139: the configuration is loaded, a client is constructed
\* with whatever it holds and nas.login() is called.  Without a host no
\* request can be sent and login() returns false.
index_route_login ==
    \E h \in Requests, r \in {"True", "False", "raise"} :
      /\ Arrives(h)
      /\ config.host = "" => r = "False"
      /\ handlers' = [handlers EXCEPT ![h] =
                        [pc |-> IF r = "True" THEN "list" ELSE "done",
                         resp |-> IF r = "True" THEN "" ELSE "rendered",
                         route |-> "index"]]
      /\ UNCHANGED <<shutdown_status, project_status, workers>>
      /\ UNCHANGED client

\* GET /, lines 140-156: get_projects(), logout(), and the page.
index_route_list ==
    \E h \in Requests :
      /\ handlers[h].route = "index"
      /\ handlers[h].pc = "list"
      /\ Respond(h, "index", "rendered")
      /\ UNCHANGED <<shutdown_status, project_status, workers>>
      /\ UNCHANGED client

\* POST /shutdown, lines 164-168: the check of the in-progress flag.
shutdown_route_check ==
    \E h \in Requests :
      /\ Arrives(h)
      /\ IF in_flight(shutdown_status)
         THEN Respond(h, "shutdown", "in_progress")
         ELSE handlers' = [handlers EXCEPT ![h] = [pc |-> "checked", resp |-> "", route |-> "shutdown"]]
      /\ UNCHANGED <<shutdown_status, project_status, workers>>
      /\ UNCHANGED client

\* POST /shutdown, lines 170-190: the configuration check and the thread start.
shutdown_route_start ==
    \E h \in Requests :
      /\ handlers[h].route = "shutdown"
      /\ handlers[h].pc = "checked"
      /\ IF ~configured(config)
         THEN /\ Respond(h, "shutdown", "missing_configuration")
              /\ UNCHANGED workers
         ELSE /\ Respond(h, "shutdown", "initiated")
              /\ workers' = [workers EXCEPT ![h] = [NoWorker EXCEPT !.kind = "shutdown", !.pc = "begin"]]
      /\ UNCHANGED <<shutdown_status, project_status>>
      /\ UNCHANGED client

\* shutdown_nas_async, line 45.
shutdown_nas_async_begin ==
    \E h \in Requests :
      /\ workers[h].kind = "shutdown"
      /\ workers[h].pc = "begin"
      /\ shutdown_status' = [shutdown_status EXCEPT !.in_progress = TRUE]
      /\ workers' = [workers EXCEPT ![h].pc = "call"]
      /\ UNCHANGED <<project_status, handlers>>
      /\ UNCHANGED client

\* shutdown_nas_async, lines 49-61: nas.shutdown() on a client of its own; it
\* returns a boolean and never raises an Exception.
shutdown_nas_async_call ==
    \E h \in Requests, success \in {"True", "False"} :
      /\ workers[h].kind = "shutdown"
      /\ workers[h].pc = "call"
      /\ workers' = [workers EXCEPT ![h].pc = "set_success", ![h].result = success]
      /\ UNCHANGED <<shutdown_status, project_status, handlers>>
      /\ UNCHANGED client

\* shutdown_nas_async, line 63.
shutdown_nas_async_success ==
    \E h \in Requests :
      /\ workers[h].kind = "shutdown"
      /\ workers[h].pc = "set_success"
      /\ shutdown_status' = [shutdown_status EXCEPT !.success = workers[h].result]
      /\ workers' = [workers EXCEPT ![h].pc = "clear"]
      /\ UNCHANGED <<project_status, handlers>>
      /\ UNCHANGED client

\* shutdown_nas_async, line 64.
shutdown_nas_async_clear ==
    \E h \in Requests :
      /\ workers[h].kind = "shutdown"
      /\ workers[h].pc = "clear"
      /\ shutdown_status' = [shutdown_status EXCEPT !.in_progress = FALSE]
      /\ workers' = [workers EXCEPT ![h].pc = "done"]
      /\ UNCHANGED <<project_status, handlers>>
      /\ UNCHANGED client

\* POST /projects/<action>, lines 204-214.
manage_projects_check ==
    \E h \in Requests, action \in {"start", "stop", "restart"} :
      /\ Arrives(h)
      /\ IF action \notin {"start", "stop"}
         THEN Respond(h, "projects", "invalid_action")
         ELSE IF in_flight(project_status)
              THEN Respond(h, "projects", "in_progress")
              ELSE handlers' = [handlers EXCEPT ![h] = [pc |-> "checked", resp |-> "", route |-> "projects"]]
      /\ UNCHANGED <<shutdown_status, project_status, workers>>
      /\ UNCHANGED client

\* POST /projects/<action>, lines 216-236.
manage_projects_start ==
    \E h \in Requests :
      /\ handlers[h].route = "projects"
      /\ handlers[h].pc = "checked"
      /\ IF ~configured(config)
         THEN /\ Respond(h, "projects", "missing_configuration")
              /\ UNCHANGED workers
         ELSE /\ Respond(h, "projects", "initiated")
              /\ workers' = [workers EXCEPT ![h] = [NoWorker EXCEPT !.kind = "projects", !.pc = "begin"]]
      /\ UNCHANGED <<shutdown_status, project_status>>
      /\ UNCHANGED client

\* manage_projects_async, line 83.
manage_projects_async_begin ==
    \E h \in Requests :
      /\ workers[h].kind = "projects"
      /\ workers[h].pc = "begin"
      /\ project_status' = [project_status EXCEPT !.in_progress = TRUE]
      /\ workers' = [workers EXCEPT ![h].pc = "login"]
      /\ UNCHANGED <<shutdown_status, handlers>>
      /\ UNCHANGED client

\* A thread without the handler of lines 115-119: an exception ends it where
\* it is raised.
after_login_uncaught(r) ==
    CASE r = "True" -> "manage"
      [] r = "False" -> "failed"
      [] OTHER -> "done"

\* Where the thread goes after nas.login(): into the batch (line 96), or to
\* the failure bookkeeping, by the else branch of line 110 or by the handler
\* of line 115.
after_login(r) == IF r = "True" THEN "manage" ELSE "failed"

\* manage_projects_async, line 95: nas.login() returns a boolean or raises.
manage_projects_async_login ==
    \E h \in Requests, r \in {"True", "False", "raise"} :
      /\ workers[h].kind = "projects"
      /\ workers[h].pc = "login"
      /\ workers' = [workers EXCEPT ![h].pc = after_login(r),
                                     ![h].result = r]
      /\ UNCHANGED <<shutdown_status, project_status, handlers>>
      /\ UNCHANGED client

\* manage_projects_async, line 97: the batch runs and returns its map.
manage_projects_async_manage ==
    \E h \in Requests, rs \in WorkerResults :
      /\ workers[h].kind = "projects"
      /\ workers[h].pc = "manage"
      /\ workers' = [workers EXCEPT ![h].pc = "set_success", ![h].results = rs]
      /\ UNCHANGED <<shutdown_status, project_status, handlers>>
      /\ UNCHANGED client

\* manage_projects_async, line 99.
manage_projects_async_success ==
    \E h \in Requests :
      /\ workers[h].kind = "projects"
      /\ workers[h].pc = "set_success"
      /\ project_status' = [project_status EXCEPT !.success =
                               IF all_values(workers[h].results) THEN "True" ELSE "False"]
      /\ workers' = [workers EXCEPT ![h].pc = "clear"]
      /\ UNCHANGED <<shutdown_status, handlers>>
      /\ UNCHANGED client

\* manage_projects_async, line 100.
manage_projects_async_clear ==
    \E h \in Requests :
      /\ workers[h].kind = "projects"
      /\ workers[h].pc = "clear"
      /\ project_status' = [project_status EXCEPT !.in_progress = FALSE]
      /\ workers' = [workers EXCEPT ![h].pc = "set_results"]
      /\ UNCHANGED <<shutdown_status, handlers>>
      /\ UNCHANGED client

\* manage_projects_async, lines 101-109: the results are published, then
\* nas.logout() is called (its request goes to the appliance, not to the
\* shared state).
manage_projects_async_results ==
    \E h \in Requests :
      /\ workers[h].kind = "projects"
      /\ workers[h].pc = "set_results"
      /\ project_status' = [project_status EXCEPT !.results = workers[h].results]
      /\ workers' = [workers EXCEPT ![h].pc = "done"]
      /\ UNCHANGED <<shutdown_status, handlers>>
      /\ UNCHANGED client

\* manage_projects_async, lines 111 and 117: login returned false or raised.
manage_projects_async_failed ==
    \E h \in Requests :
      /\ workers[h].kind = "projects"
      /\ workers[h].pc = "failed"
      /\ project_status' = [project_status EXCEPT !.success = "False"]
      /\ workers' = [workers EXCEPT ![h].pc = "failed_clear"]
      /\ UNCHANGED <<shutdown_status, handlers>>
      /\ UNCHANGED client

\* manage_projects_async, lines 112 and 118.
manage_projects_async_failed_clear ==
    \E h \in Requests :
      /\ workers[h].kind = "projects"
      /\ workers[h].pc = "failed_clear"
      /\ project_status' = [project_status EXCEPT !.in_progress = FALSE]
      /\ workers' = [workers EXCEPT ![h].pc = "done"]
      /\ UNCHANGED <<shutdown_status, handlers>>
      /\ UNCHANGED client

\* GET /status, lines 193-196: the shutdown record as it is at that moment.
status_route == [in_progress |-> shutdown_status.in_progress,
                 success |-> shutdown_status.success]

\* GET /projects/status, lines 239-242: the project record as it is.
get_project_status_route == project_status

-----------------------------------------------------------------------------

InitWith(c, sts) ==
    /\ stack = <<>>
    /\ ret = "-"
    /\ exc = "none"
    /\ session_id = None
    /\ log = <<>>
    /\ status \in sts
    /\ calls = 0
    /\ top = NewFrame("none")
    /\ projs = <<>>
    /\ results = NoEntries
    /\ config = c
    /\ shutdown_status = [in_progress |-> FALSE, success |-> None]
    /\ project_status = [in_progress |-> FALSE, success |-> None, results |-> NoResults]
    /\ handlers = [h \in Requests |-> NewRequest]
    /\ workers = [h \in Requests |-> NoWorker]

\* A client constructed with a host, a user name and a password.
Init == InitWith(CompleteConfig, AddressedStatuses)

Next ==
    \/ Caller
    \/ login
    \/ logout
    \/ shutdown_via_api_entry
    \/ shutdown_via_api_loop
    \/ shutdown_via_ssh
    \/ shutdown_entry
    \/ shutdown_after_login
    \/ shutdown_after_api
    \/ shutdown_after_ssh
    \/ shutdown_after_logout
    \/ shutdown_except
    \/ get_projects
    \/ start_project_entry
    \/ start_project_lookup
    \/ start_project_check
    \/ start_project_stream
    \/ start_project_verify
    \/ start_project_start
    \/ stop_project_entry
    \/ stop_project_lookup
    \/ stop_project_check
    \/ stop_project_quoted
    \/ stop_project_plain
    \/ Unwind

Spec == Init /\ [][Next]_vars

\* The command line: runs of main(), one after the other.
CliNext ==
    \/ CliCaller
    \/ main_entry
    \/ main_after_login
    \/ main_after_command
    \/ main_finally_exit
    \/ main_finally
    \/ main_finally_raise
    \/ main_after_shutdown
    \/ login
    \/ logout
    \/ shutdown_via_api_entry
    \/ shutdown_via_api_loop
    \/ shutdown_via_ssh
    \/ shutdown_entry
    \/ shutdown_after_login
    \/ shutdown_after_api
    \/ shutdown_after_ssh
    \/ shutdown_after_logout
    \/ shutdown_except
    \/ get_projects
    \/ start_project_entry
    \/ start_project_lookup
    \/ start_project_check
    \/ start_project_stream
    \/ start_project_verify
    \/ start_project_start
    \/ stop_project_entry
    \/ stop_project_lookup
    \/ stop_project_check
    \/ stop_project_quoted
    \/ stop_project_plain
    \/ manage_predefined_projects_entry
    \/ manage_predefined_projects_loop
    \/ manage_predefined_projects_assign
    \/ manage_predefined_projects_except
    \/ get_project_status_entry
    \/ get_project_status_find
    \/ Unwind

\* The states of the appliance a run of the command line starts in: every
\* bundle stopped, every bundle running, and the first and third running.
CliStatuses ==
    { [b \in BundleIds |-> "STOPPED"],
      [b \in BundleIds |-> "RUNNING"],
      [b \in BundleIds |-> IF b \in {"id1", "id3"} THEN "RUNNING" ELSE "STOPPED"] }

CliInit == \E c \in Configs : InitWith(c, CliStatuses)

CliSpec == CliInit /\ [][CliNext]_vars

\* The web front end on its own.
WebNext ==
    \/ index_route_login
    \/ index_route_list
    \/ shutdown_route_check
    \/ shutdown_route_start
    \/ shutdown_nas_async_begin
    \/ shutdown_nas_async_call
    \/ shutdown_nas_async_success
    \/ shutdown_nas_async_clear
    \/ manage_projects_check
    \/ manage_projects_start
    \/ manage_projects_async_begin
    \/ manage_projects_async_login
    \/ manage_projects_async_manage
    \/ manage_projects_async_success
    \/ manage_projects_async_clear
    \/ manage_projects_async_results
    \/ manage_projects_async_failed
    \/ manage_projects_async_failed_clear

\* No client call is made from the command line while the front end is observed.
WebInit ==
    /\ \E c \in Configs : InitWith(c, {[b \in BundleIds |-> "STOPPED"]})

WebSpec == WebInit /\ [][WebNext]_vars

\* The steps of the background threads.  A thread that has been started is
\* scheduled, and each of its steps ends: every request of the client has a
\* timeout and the remote-shell run has one.
WorkerStep ==
    \/ shutdown_nas_async_begin
    \/ shutdown_nas_async_call
    \/ shutdown_nas_async_success
    \/ shutdown_nas_async_clear
    \/ manage_projects_async_begin
    \/ manage_projects_async_login
    \/ manage_projects_async_manage
    \/ manage_projects_async_success
    \/ manage_projects_async_clear
    \/ manage_projects_async_results
    \/ manage_projects_async_failed
    \/ manage_projects_async_failed_clear

\* The front end with threads that keep running.
WebFairSpec == WebSpec /\ WF_vars(WorkerStep)

-----------------------------------------------------------------------------
\* Properties.

TypeOK ==
    /\ \A i \in DOMAIN stack : stack[i] \in FrameRecord
    /\ \A i \in DOMAIN log : log[i] \in EventRecord
    /\ \A i \in DOMAIN projs : projs[i] \in ProjectRecord
    /\ top \in FrameRecord
    /\ DOMAIN results \subseteq PredefinedNames
    /\ \A n \in DOMAIN results : results[n] \in BOOLEAN
    /\ config \in Configs
    /\ session_id \in LoginPayloads
    /\ status \in [BundleIds -> Statuses]
    /\ shutdown_status \in StatusRecord
    /\ project_status \in ProjectStatusRecord
    /\ \A h \in Requests : handlers[h] \in RequestRecord
    /\ \A h \in Requests : workers[h] \in WorkerRecord

\* The current top-level call has returned (it did not raise).
Returned == stack = <<>> /\ exc = "none" /\ calls > 0

\* The current top-level call is over, by a return or by an exception.
Finished == stack = <<>> /\ calls > 0

Events(P(_)) == SelectSeq(log, P)

IsShutdownReq(e) == e.ev = "req" /\ e.method = "shutdown"

IsSshRun(e) == e.ev = "ssh"

IsLogoutCall(e) == e.ev = "call" /\ e.method = "logout"

IsLoginTrue(e) == e.ev = "ret" /\ e.method = "login" /\ e.resp = "True"

IsLoginFalse(e) == e.ev = "ret" /\ e.method = "login" /\ e.resp = "False"

IsWireReq(e) == e.ev = "req"

IsListReq(e) == e.ev = "req" /\ e.method = "list"

IsMutatingReq(e) == e.ev = "req" /\ e.method \in {"start_stream", "start", "stop"}

IsInterrupted(e) == e.resp = Interrupt \/ e.data = Interrupt

\* C1: the shutdown candidates are requested in the declared priority order
\* (SYNO.Core.System, SYNO.Core.System.Utilization, SYNO.DSM.System), and none
\* is requested after an earlier one returned explicit success.
C1_CandidateOrder ==
    LET s == Events(IsShutdownReq)
        order == << "SYNO.Core.System", "SYNO.Core.System.Utilization", "SYNO.DSM.System" >>
    IN  /\ Len(s) <= Len(order)
        /\ \A i \in DOMAIN s :
             /\ s[i].api = order[i]
             /\ (i < Len(s) => s[i].resp # "ok")

\* C1 witness: shutdown_via_api returned true on its second candidate after
\* the first one refused.
C1_Witness ==
    /\ Returned
    /\ top.fn = "shutdown_via_api"
    /\ ret = "True"
    /\ Len(Events(IsShutdownReq)) = 2
    /\ Events(IsShutdownReq)[1].resp = "fail"
    /\ Events(IsShutdownReq)[2].resp = "ok"

\* C2: logout is invoked exactly once per successful login: when shutdown()
\* is over, logout() has been called as often as login() returned true,
\* whether the steps in between succeeded, failed or raised.
C2_LogoutPerLogin ==
    (Finished /\ top.fn = "shutdown")
        => Len(Events(IsLogoutCall)) = Len(Events(IsLoginTrue))

\* The bundles a start_project / stop_project call designates: those that
\* agree with every designator the caller gave.
Targeted(call) ==
    {i \in DOMAIN Bundles :
        /\ (Truthy(call.name) => Bundles[i].name = call.name)
        /\ (Truthy(call.id) => Bundles[i].id = call.id)
        /\ (Truthy(call.name) \/ Truthy(call.id))}

TargetStatus(fn) == IF fn = "start_project" THEN "RUNNING" ELSE "STOPPED"

\* The result of the list query that precedes the first mutating call names a
\* designated bundle in the target status.
ShownInTarget ==
    /\ ret = "dict"
    /\ \E i \in Targeted(top), j \in DOMAIN projs :
         /\ projs[j].id = Bundles[i].id
         /\ projs[j].status = TargetStatus(top.fn)

\* C3: start_project and stop_project issue no mutating call when the list
\* query shows the designated bundle already in the target status, however
\* the bundle is designated (by name, by id, or both).
C3_Idempotent ==
    /\ At("start_project", "stream") => ~ShownInTarget
    /\ At("stop_project", "stop_quoted") => ~ShownInTarget

\* C4: a start_stream response without a decodable body is never the end of
\* start_project: at most one list query follows it, and when start_project
\* returns, exactly one list query has followed it, immediately.
C4_VerifyOnce ==
    \A i \in DOMAIN log :
        (/\ log[i].ev = "req"
         /\ log[i].method = "start_stream"
         /\ log[i].resp \in {"nonjson", "neterr"})
        => LET after == {j \in DOMAIN log : j > i /\ IsListReq(log[j])}
           IN  /\ Cardinality(after) <= 1
               /\ (Returned => after = {i + 1})

\* C4 witness: start_project returned true after a start_stream that was not
\* JSON and the list query that followed it.
C4_Witness ==
    /\ Returned
    /\ top.fn = "start_project"
    /\ ret = "True"
    /\ \E i \in DOMAIN log :
         /\ log[i].method = "start_stream"
         /\ log[i].resp = "nonjson"
         /\ i + 1 = Len(log)
         /\ IsListReq(log[i + 1])

\* C5: a login response with the success flag but without a well-formed
\* token is a failed login: login() returns false and no session is held.
C5_TokenRequired ==
    \A i \in DOMAIN log :
        (/\ log[i].ev = "req"
         /\ log[i].method = "login"
         /\ log[i].resp = "ok"
         /\ log[i].data # "tok1"
         /\ i < Len(log))
        => /\ IsLoginFalse(log[i + 1])
           /\ ~Truthy(session_id)

\* The threads of one operation class that have been started and have not
\* ended.
Running(kind) == {h \in Requests : workers[h].kind = kind /\ workers[h].pc # "done"}

\* C6: at most one shutdown worker and at most one project-management worker
\* is running at any time: no POST starts a worker while a worker of the same
\* class, started by an earlier POST, has not ended.
C6_Serialized ==
    /\ Cardinality(Running("shutdown")) <= 1
    /\ Cardinality(Running("projects")) <= 1

\* C7: when login fails, shutdown() requests no shutdown candidate, runs no
\* remote-shell fallback, does not call logout, and returns false.
C7_LoginFailed ==
    (top.fn = "shutdown" /\ Len(Events(IsLoginFalse)) > 0)
        => /\ Len(Events(IsShutdownReq)) = 0
           /\ Len(Events(IsSshRun)) = 0
           /\ Len(Events(IsLogoutCall)) = 0
           /\ Len(Events(IsWireReq)) = 1
           /\ (Finished => Returned /\ ret = "False")

\* C7 witness: shutdown() is over after a refused login.
C7_Witness ==
    /\ Returned
    /\ top.fn = "shutdown"
    /\ ret = "False"
    /\ Len(Events(IsLoginFalse)) = 1
    /\ log[1].resp = "fail"

\* C8: without a session token shutdown_via_api, get_projects, start_project
\* and stop_project send nothing and return false (get_projects: None).
C8_FailFast ==
    (top.fn \in {"shutdown_via_api", "get_projects", "start_project", "stop_project"}
     /\ session_id \in {None, ""})
        => /\ log = <<>>
           /\ exc = "none"
           /\ (Finished => ret = IF top.fn = "get_projects" THEN None ELSE "False")

\* C8 witness: start_project was called by name on a client whose login left
\* an empty token, and has returned.
C8_Witness ==
    /\ Returned
    /\ top.fn = "start_project"
    /\ top.name = "iot"
    /\ session_id = ""
    /\ ret = "False"

\* C9: with use_ssh false the remote-shell fallback is never run, and
\* shutdown() returns false when all three candidates failed.
C9_NoEscalation ==
    (top.fn = "shutdown" /\ ~top.flag)
        => /\ Len(Events(IsSshRun)) = 0
           /\ (/\ Finished
               /\ Len(Events(IsShutdownReq)) = 3
               /\ \A i \in 1 .. 3 : Events(IsShutdownReq)[i].resp # "ok")
              => Returned /\ ret = "False"

\* C9 witness: shutdown(use_ssh=False) returned after three candidates that
\* all refused, and logged out.
C9_Witness ==
    /\ Returned
    /\ top.fn = "shutdown"
    /\ ~top.flag
    /\ Len(Events(IsShutdownReq)) = 3
    /\ \A i \in 1 .. 3 : Events(IsShutdownReq)[i].resp = "fail"
    /\ Len(Events(IsLogoutCall)) = 1

\* The boolean outcome of the remote-shell run.
SshResult(e) == IF e.resp = "exit0" THEN "True" ELSE "False"

\* C10 as stated: with use_ssh true, after a successful login no candidate is
\* requested, the fallback is run exactly once and shutdown() returns the
\* fallback's outcome.
C10_FallbackOutcome ==
    (top.fn = "shutdown" /\ top.flag /\ Len(Events(IsLoginTrue)) > 0)
        => /\ Len(Events(IsShutdownReq)) = 0
           /\ Len(Events(IsSshRun)) <= 1
           /\ Finished => /\ Len(Events(IsSshRun)) = 1
                          /\ Returned
                          /\ ret = SshResult(Events(IsSshRun)[1])

\* C10 amended: as above, but shutdown() returns the fallback's outcome only
\* when no interrupt arrived during the fallback or the logout that follows
\* it; interrupted there, it returns false.
C10_FallbackOutcomeUnlessInterrupted ==
    (top.fn = "shutdown" /\ top.flag /\ Len(Events(IsLoginTrue)) > 0)
        => /\ Len(Events(IsShutdownReq)) = 0
           /\ Len(Events(IsSshRun)) <= 1
           /\ Finished => /\ Len(Events(IsSshRun)) = 1
                          /\ Returned
                          /\ ret = IF Len(Events(IsInterrupted)) > 0
                                   THEN "False"
                                   ELSE SshResult(Events(IsSshRun)[1])

\* C10 witness: shutdown(use_ssh=True) returned true after a remote-shell run
\* that exited with status zero and a logout.
C10_Witness ==
    /\ Returned
    /\ top.fn = "shutdown"
    /\ top.flag
    /\ ret = "True"
    /\ Len(Events(IsSshRun)) = 1
    /\ Events(IsSshRun)[1].resp = "exit0"
    /\ Len(Events(IsLogoutCall)) = 1

\* A call of shutdown_via_api is in progress.
InApi == \E k \in DOMAIN stack : stack[k].fn = "shutdown_via_api"

\* Responses that are an explicit failure, a transport error or a timeout
\* (or a body that cannot be decoded).
IsRefusal(e) == e.resp \in {"fail", "neterr", "nonjson"}

\* C11: in shutdown_via_api each candidate is requested at most once; a
\* candidate that answers with an explicit failure, a transport error or a
\* timeout is not retried and is followed by the next candidate; the function
\* returns true exactly when a candidate reported explicit success, and returns
\* false (on a client that holds a token) only after all three were requested.
C11_NoRetryNoAbort ==
    LET s == Events(IsShutdownReq)
    IN  /\ \A i, j \in DOMAIN s : i # j => s[i].api # s[j].api
        /\ \A i \in DOMAIN s :
             (IsRefusal(s[i]) /\ i < Len(api_endpoints) /\ ~InApi) => i < Len(s)
        /\ (Returned /\ top.fn = "shutdown_via_api")
             => /\ ret \in {"True", "False"}
                /\ (ret = "True") <=> (\E i \in DOMAIN s : s[i].resp = "ok")
                /\ (ret = "False" /\ Truthy(session_id)) => Len(s) = Len(api_endpoints)

\* C11 witness: shutdown_via_api returned false after a timeout, an explicit
\* failure and another timeout, one per candidate.
C11_Witness ==
    /\ Returned
    /\ top.fn = "shutdown_via_api"
    /\ ret = "False"
    /\ Len(Events(IsShutdownReq)) = 3
    /\ Events(IsShutdownReq)[1].resp = "neterr"
    /\ Events(IsShutdownReq)[2].resp = "fail"
    /\ Events(IsShutdownReq)[3].resp = "neterr"

\* A mutating stop call whose response had no decodable body.
IsAmbiguousStop(e) ==
    e.ev = "req" /\ e.method = "stop" /\ e.resp \in {"nonjson", "neterr"}

\* C12: a stop call whose response has no decodable body is ambiguous, not
\* failed: before stop_project returns, a list query follows it, and
\* stop_project returns true when the bundle is then STOPPED.
C12_StopVerified ==
    (Returned /\ top.fn = "stop_project")
        => \A i \in DOMAIN log :
             IsAmbiguousStop(log[i])
               => /\ \E j \in DOMAIN log : j > i /\ IsListReq(log[j])
                  /\ (\A b \in Designated(log[i].id) : status[b] = "STOPPED")
                       => ret = "True"

\* C13: get_projects returns the bundles of a successful list response for
\* both shapes of the payload: when it returns a result, the sequence it
\* returns holds exactly the bundles the appliance listed.
C13_BothShapes ==
    (Returned /\ top.fn = "get_projects" /\ ret # None)
        => projs = Listing(status)

\* A run of the command line with --start-projects or --stop-projects.
BatchRun == top.fn = "main" /\ top.id \in {"start_projects", "stop_projects"}

\* The process exit status is zero.
ExitZero == Returned /\ ret = "exit0"

\* The part of C14 about the map: the bundles are attempted in the order of
\* predefined_projects, each once; the map's keys are the bundles attempted so
\* far; a bundle's entry is true exactly when its call returned true, so a
\* failure or an exception makes that entry, and no other, false.
BatchMap ==
    LET o == Events(IsOutcome)
    IN  /\ Len(o) <= Len(predefined_projects)
        /\ \A i \in DOMAIN o : o[i].data = predefined_projects[i]
        /\ DOMAIN results = {o[i].data : i \in DOMAIN o}
        /\ \A i \in DOMAIN o : results[o[i].data] = (o[i].resp = "True")

\* C14 as stated: in a batch run the map is built as above, it has the four
\* predefined names as keys once every bundle was attempted, and the exit
\* status is non-zero exactly when some entry is false.
C14_BatchReport ==
    BatchRun
        => /\ BatchMap
           /\ (Finished /\ Len(Events(IsOutcome)) = Len(predefined_projects))
                => /\ DOMAIN results = PredefinedNames
                   /\ ~ExitZero <=> (\E n \in DOMAIN results : ~results[n])

\* C14 amended: as above, and a failure or exception of one bundle does not
\* keep the others from being attempted; but the exit status tells whether
\* some entry is false only in a run that no user interrupt ended.
C14_BatchReportUnlessInterrupted ==
    BatchRun
        => /\ BatchMap
           /\ (Finished /\ Len(Events(IsLoginTrue)) > 0 /\ exc # "KeyboardInterrupt")
                => /\ Len(Events(IsOutcome)) = Len(predefined_projects)
                   /\ DOMAIN results = PredefinedNames
                   /\ Returned
                   /\ ret \in {"exit0", "exit1"}
                   /\ (ret = "exit1") <=> (\E n \in DOMAIN results : ~results[n])

\* C14 witness: a batch start is over with exit status 1; the second bundle
\* raised an exception, the other three were started.
C14_Witness ==
    /\ BatchRun
    /\ Returned
    /\ ret = "exit1"
    /\ top.id = "start_projects"
    /\ Len(Events(IsOutcome)) = 4
    /\ Events(IsOutcome)[2].resp = "raise"
    /\ \A n \in PredefinedNames : results[n] <=> n # "jellyfin"

\* C15: a user interrupt at any point of shutdown() makes it return false,
\* and nothing follows the interrupted step: no further request, no
\* remote-shell run, no logout.
C15_Cancelled ==
    top.fn = "shutdown"
        => \A i \in DOMAIN log :
             IsInterrupted(log[i])
               => /\ i = Len(log)
                  /\ Finished => (Returned /\ ret = "False")

\* C15 witness: shutdown() returned false after an interrupt during the
\* request of the second candidate.
C15_Witness ==
    /\ Returned
    /\ top.fn = "shutdown"
    /\ ret = "False"
    /\ Len(Events(IsShutdownReq)) = 2
    /\ log[Len(log)].api = "SYNO.Core.System.Utilization"
    /\ IsInterrupted(log[Len(log)])

\* A request whose response makes the code that reads it raise: a JSON value
\* that is not an object where login() or shutdown_via_api() calls result.get,
\* or a login response whose 'data' member is not an object.
IsRaising(e) ==
    /\ e.ev = "req"
    /\ \/ e.method \in {"login", "shutdown"} /\ e.resp = "nondict"
       \/ e.method = "login" /\ e.resp = "ok" /\ e.data = "notdict"

\* C16: shutdown() never raises: it ends by returning a boolean, and an
\* exception raised at a step of the sequence ends the sequence there and
\* makes shutdown() return false.
C16_NeverRaises ==
    top.fn = "shutdown"
        => /\ Finished => (Returned /\ ret \in {"True", "False"})
           /\ \A i \in DOMAIN log :
                IsRaising(log[i])
                  => /\ i = Len(log)
                     /\ Finished => ret = "False"

\* C16 witness: shutdown() returned false after the first candidate answered
\* with a JSON value that is not an object.
C16_Witness ==
    /\ Returned
    /\ top.fn = "shutdown"
    /\ ret = "False"
    /\ Len(Events(IsShutdownReq)) = 1
    /\ log[Len(log)].method = "shutdown"
    /\ log[Len(log)].resp = "nondict"

\* The boolean outcome of the primary or fallback attempt of a shutdown():
\* of the remote-shell run when there was one, else of the candidates.
AttemptOutcome ==
    IF Len(Events(IsSshRun)) > 0
    THEN SshResult(Events(IsSshRun)[1])
    ELSE IF \E i \in DOMAIN log : IsShutdownReq(log[i]) /\ log[i].resp = "ok"
         THEN "True" ELSE "False"

IsAttempt(e) == IsShutdownReq(e) \/ IsSshRun(e)

\* C17: when login succeeded and neither an exception nor an interrupt
\* occurred, shutdown() has called logout() once, after every step of the
\* primary/fallback attempt (with a session token the logout request is the
\* last thing sent), and it returns the outcome of the attempt whatever the
\* logout request was answered.
C17_LogoutThenOutcome ==
    (/\ top.fn = "shutdown"
     /\ Finished
     /\ Len(Events(IsLoginTrue)) > 0
     /\ \A i \in DOMAIN log : ~IsInterrupted(log[i]) /\ ~IsRaising(log[i]))
        => /\ Returned
           /\ Len(Events(IsLogoutCall)) = 1
           /\ \A i, j \in DOMAIN log : (IsLogoutCall(log[i]) /\ IsAttempt(log[j])) => j < i
           /\ Truthy(session_id) => log[Len(log)].method = "logout" /\ log[Len(log)].ev = "req"
           /\ ret = AttemptOutcome

\* C17 witness: shutdown() returned true after a candidate reported success
\* and the logout request that followed was refused.
C17_Witness ==
    /\ Returned
    /\ top.fn = "shutdown"
    /\ ret = "True"
    /\ Len(Events(IsShutdownReq)) = 1
    /\ log[Len(log)].method = "logout"
    /\ log[Len(log)].resp = "fail"

IsStopReq(e) == e.ev = "req" /\ e.method = "stop"

\* The identifiers of the appliance's bundles wrapped in %22.
QuotedForms == {"%22" \o b \o "%22" : b \in BundleIds}

\* C18: stop_project sends at most two stop calls: the first carries the
\* quoted identifier, the second the unquoted one and is sent only after the
\* first did not report explicit success; once a stop call was sent,
\* stop_project returns true exactly when the last one reported explicit
\* success, so false when neither did.
C18_QuotedThenPlain ==
    top.fn = "stop_project"
        => LET s == Events(IsStopReq)
           IN  /\ Len(s) <= 2
               /\ Len(s) >= 1 => s[1].id \in QuotedForms
               /\ Len(s) = 2 => /\ s[2].id \in BundleIds
                                /\ s[1].id = "%22" \o s[2].id \o "%22"
                                /\ s[1].resp # "ok"
               /\ (Returned /\ Len(s) >= 1)
                    => /\ ret \in {"True", "False"}
                       /\ (ret = "True") <=> (s[Len(s)].resp = "ok")
                       /\ (ret = "False") => Len(s) = 2

\* C18 witness: stop_project returned false after the quoted call was
\* refused and the unquoted call timed out.
C18_Witness ==
    /\ Returned
    /\ top.fn = "stop_project"
    /\ ret = "False"
    /\ Len(Events(IsStopReq)) = 2
    /\ Events(IsStopReq)[1].resp = "fail"
    /\ Events(IsStopReq)[2].resp = "neterr"

\* C20: shutdown_via_ssh returns true exactly when the remote process exited
\* with status zero; a non-zero status, a timeout, a missing sshpass binary
\* or any other error of the run makes it return false, and none of them
\* raises to the caller.
C20_SshOutcome ==
    (top.fn = "shutdown_via_ssh" /\ Finished)
        => LET o == Events(IsSshRun)[1].resp
           IN  /\ Len(Events(IsSshRun)) = 1
               /\ o \in SshOutcomes
                    => /\ Returned
                       /\ ret \in {"True", "False"}
                       /\ (ret = "True") <=> (o = "exit0")

\* C20 witness: shutdown_via_ssh returned false because sshpass is not
\* installed.
C20_Witness ==
    /\ Returned
    /\ top.fn = "shutdown_via_ssh"
    /\ ret = "False"
    /\ Events(IsSshRun)[1].resp = "nosshpass"

\* Request h has run a core operation: its handler called nas.login(), or it
\* started a worker thread (which constructs a client and calls it).
CoreRun(h) ==
    \/ workers[h].kind # "none"
    \/ handlers[h].route = "index" /\ handlers[h].pc # "new"

\* C19: no route of the web front end runs a core operation unless host,
\* username and password are all non-empty in the effective configuration.
C19_ConfigRequired ==
    \A h \in Requests : CoreRun(h) => configured(config)

-----------------------------------------------------------------------------
\* A cooperating appliance: one on which a start or stop call that is answered
\* with explicit success has taken effect on the bundle it designates.

\* The status a mutating call asks for.
target_of(method) == IF method = "stop" THEN "STOPPED" ELSE "RUNNING"

\* The step, if it is a mutating call that the appliance accepts, leaves the
\* designated bundle in the status asked for.
Cooperates ==
    (/\ Len(log') = Len(log) + 1
     /\ IsMutatingReq(log'[Len(log')])
     /\ log'[Len(log')].resp = "ok")
        => \A b \in Designated(log'[Len(log')].id) :
             status'[b] = target_of(log'[Len(log')].method)

\* The client of Next, against an appliance that cooperates.
CoopNext ==
    \/ Caller /\ Cooperates
    \/ login /\ Cooperates
    \/ logout /\ Cooperates
    \/ shutdown_via_api_entry /\ Cooperates
    \/ shutdown_via_api_loop /\ Cooperates
    \/ shutdown_via_ssh /\ Cooperates
    \/ shutdown_entry /\ Cooperates
    \/ shutdown_after_login /\ Cooperates
    \/ shutdown_after_api /\ Cooperates
    \/ shutdown_after_ssh /\ Cooperates
    \/ shutdown_after_logout /\ Cooperates
    \/ shutdown_except /\ Cooperates
    \/ get_projects /\ Cooperates
    \/ start_project_entry /\ Cooperates
    \/ start_project_lookup /\ Cooperates
    \/ start_project_check /\ Cooperates
    \/ start_project_stream /\ Cooperates
    \/ start_project_verify /\ Cooperates
    \/ start_project_start /\ Cooperates
    \/ stop_project_entry /\ Cooperates
    \/ stop_project_lookup /\ Cooperates
    \/ stop_project_check /\ Cooperates
    \/ stop_project_quoted /\ Cooperates
    \/ stop_project_plain /\ Cooperates
    \/ Unwind /\ Cooperates

CoopSpec == Init /\ [][CoopNext]_vars

\* The status a list query shows for the bundle named nm ("absent" when the
\* appliance lists no such bundle).
ListedStatus(nm) ==
    LET i == FindByName(Listing(status), nm)
    IN  IF i = 0 THEN "absent" ELSE Listing(status)[i].status

\* A call of start_project or stop_project by name alone.
ByNameCall ==
    /\ top.fn \in {"start_project", "stop_project"}
    /\ Truthy(top.name)
    /\ ~Truthy(top.id)

\* C21: on a cooperating appliance, once start_project(name) has returned
\* true a list query shows the bundle of that name RUNNING, and once
\* stop_project(name) has returned true it shows it STOPPED.
C21_RoundTrip ==
    (ByNameCall /\ Returned /\ ret = "True")
        => ListedStatus(top.name) = TargetStatus(top.fn)

\* C21 witness: start_project("iot") returned true on the regular start call,
\* after a start_stream that the appliance refused.
C21_Witness ==
    /\ ByNameCall
    /\ Returned
    /\ ret = "True"
    /\ top.fn = "start_project"
    /\ log[Len(log)].method = "start"
    /\ log[Len(log)].resp = "ok"
    /\ log[Len(log) - 1].method = "start_stream"
    /\ log[Len(log) - 1].resp = "fail"

\* A start_stream request that came back without a decodable body.
IsAmbiguousStart(e) ==
    e.ev = "req" /\ e.method = "start_stream" /\ e.resp \in {"nonjson", "neterr"}

\* A list query that cannot verify anything: it failed, or its payload is not
\* the keyed collection.
IsFailedList(e) ==
    \/ e.resp \in {"fail", "nonjson", "neterr"}
    \/ e.resp = "ok" /\ e.data = "array"

\* C22: the verification after an ambiguous start_stream is one list query.
\* When start_project is over without an exception, the query is the only one
\* after the start_stream; if it verified the start nothing follows it and the
\* bundle of the name is listed RUNNING; if the query failed or the call names
\* no bundle, verification has failed; and after a failed verification exactly
\* one regular start follows and start_project returns true precisely when
\* that start reported explicit success.
C22_SinglePass ==
    \A i \in DOMAIN log :
        (IsAmbiguousStart(log[i]) /\ Returned)
        => /\ Len(log) \in {i + 1, i + 2}
           /\ IsListReq(log[i + 1])
           /\ Len(log) = i + 1
                => /\ ret = "True"
                   /\ log[i + 1].resp = "ok"
                   /\ ListedStatus(top.name) = "RUNNING"
           /\ (IsFailedList(log[i + 1]) \/ ~Truthy(top.name))
                => Len(log) = i + 2
           /\ Len(log) = i + 2
                => /\ log[i + 2].ev = "req"
                   /\ log[i + 2].method = "start"
                   /\ (ret = "True" <=> log[i + 2].resp = "ok")
                   /\ ret \in {"True", "False"}

\* C22 witness: start_project called by id alone returned true on the regular
\* start, after an unanswered start_stream and a list query in which no
\* bundle is found by name.
C22_Witness ==
    /\ Returned
    /\ top.fn = "start_project"
    /\ ~Truthy(top.name)
    /\ ret = "True"
    /\ Len(log) >= 3
    /\ IsAmbiguousStart(log[Len(log) - 2])
    /\ IsListReq(log[Len(log) - 1])
    /\ log[Len(log) - 1].resp = "ok"
    /\ log[Len(log)].method = "start"
    /\ log[Len(log)].resp = "ok"

\* C23: the client holds a session token only between a successful login and
\* the next logout: once logout() has returned, or login() has returned
\* false, session_id is empty.
C23_TokenReleased ==
    (Returned /\ (top.fn = "logout" \/ (top.fn = "login" /\ ret = "False")))
        => ~Truthy(session_id)

\* The shared record a thread of the given kind keeps its books in.
Flags(kind) == IF kind = "shutdown" THEN shutdown_status ELSE project_status

\* Thread h has set in_progress and has not cleared it yet.
Busy(h) ==
    \/ workers[h].kind = "shutdown" /\ workers[h].pc \in {"call", "set_success", "clear"}
    \/ /\ workers[h].kind = "projects"
       /\ workers[h].pc \in {"login", "manage", "set_success", "clear", "failed", "failed_clear"}

\* C24: every background thread ends its bookkeeping: once it has set
\* in_progress, it comes to a point where it has cleared the flag and success
\* is a boolean, whether the operation succeeded, failed, could not log in or
\* raised.
C24_WorkerEnds ==
    \A h \in Requests :
        Busy(h) ~> (/\ ~Busy(h)
                    /\ ~Flags(workers[h].kind).in_progress
                    /\ Flags(workers[h].kind).success \in {"True", "False"})

\* C24 witness: a project thread whose login raised has ended, the flag is
\* clear and success is false.
C24_Witness ==
    \E h \in Requests :
        /\ workers[h].kind = "projects"
        /\ workers[h].result = "raise"
        /\ workers[h].pc = "done"
        /\ ~project_status.in_progress
        /\ project_status.success = "False"

\* Request h has been accepted on the given route: its thread was started and
\* the caller was told so.
Accepted(h, route) == handlers[h].route = route /\ handlers[h].resp = "initiated"

\* The thread of request h has written its outcome to the shared record.
Reported(h) == workers[h].pc \in {"clear", "failed_clear", "set_results", "done"}

\* C25: once a shutdown or project-management request has been accepted, a
\* status poll that shows in_progress false and a success value shows the
\* outcome of that request: its thread has written it.
C25_PollIsCurrent ==
    \A h \in Requests :
        /\ (/\ Accepted(h, "shutdown")
            /\ ~status_route.in_progress
            /\ status_route.success # None)
           => Reported(h)
        /\ (/\ Accepted(h, "projects")
            /\ ~get_project_status_route.in_progress
            /\ get_project_status_route.success # None)
           => Reported(h)

\* The appliance has a bundle of that name.
IsListed(nm) == \E i \in DOMAIN Bundles : Bundles[i].name = nm

\* C26: when start_project or stop_project is called by name and the first
\* list query fails or holds no bundle of that name, no further request is
\* made, in particular no start_stream, start or stop, and the operation
\* returns false.
C26_UnknownName ==
    (/\ ByNameCall
     /\ Len(log) >= 1
     /\ IsListReq(log[1])
     /\ (IsFailedList(log[1]) \/ (log[1].resp = "ok" /\ ~IsListed(top.name))))
    => /\ Len(log) = 1
       /\ Finished => (Returned /\ ret = "False")

\* C26 witness: stop_project returned false for a name the appliance does not
\* list, after the one list query.
C26_Witness ==
    /\ ByNameCall
    /\ top.fn = "stop_project"
    /\ ~IsListed(top.name)
    /\ Returned
    /\ ret = "False"
    /\ Len(log) = 1
    /\ IsListReq(log[1])
    /\ log[1].resp = "ok"
    /\ log[1].data = "dict"

\* The list query of the verification step did confirm the bundle of the
\* call RUNNING.
Confirmed(e) ==
    /\ IsListReq(e)
    /\ e.resp = "ok"
    /\ e.data = "dict"
    /\ ListedStatus(top.name) = "RUNNING"

\* C27: start_project sends at most two mutating calls, start_stream with the
\* quoted identifier and then start with the unquoted one; it is about to
\* send the regular start only when start_stream did not report explicit
\* success and, if it came back undecodable, the verification did not confirm
\* RUNNING; and once a mutating call was sent, start_project returns false
\* exactly when start_stream, the verification and the regular start all went
\* without success.
C27_StreamThenStart ==
    top.fn = "start_project"
        => LET m == Events(IsMutatingReq)
           IN  /\ Len(m) <= 2
               /\ Len(m) >= 1 => /\ m[1].method = "start_stream"
                                 /\ m[1].id \in QuotedForms
               /\ Len(m) = 2 => /\ m[2].method = "start"
                                /\ m[2].id \in BundleIds
                                /\ m[1].id = "%22" \o m[2].id \o "%22"
                                /\ m[1].resp # "ok"
               /\ At("start_project", "start")
                    => /\ Len(m) = 1
                       /\ m[1].resp # "ok"
                       /\ IsAmbiguousStart(m[1])
                            => /\ IsListReq(log[Len(log)])
                               /\ ~Confirmed(log[Len(log)])
               /\ (Returned /\ Len(m) >= 1)
                    => /\ ret \in {"True", "False"}
                       /\ (ret = "False") <=> (Len(m) = 2 /\ m[2].resp # "ok")
                       /\ (ret = "True" /\ Len(m) = 1)
                            => \/ m[1].resp = "ok"
                               \/ IsAmbiguousStart(m[1]) /\ Confirmed(log[Len(log)])

\* C27 witness: start_project returned false after a start_stream and a
\* regular start that the appliance both refused.
C27_Witness ==
    /\ Returned
    /\ top.fn = "start_project"
    /\ ret = "False"
    /\ Len(Events(IsMutatingReq)) = 2
    /\ Events(IsMutatingReq)[1].method = "start_stream"
    /\ Events(IsMutatingReq)[1].resp = "fail"
    /\ Events(IsMutatingReq)[2].method = "start"
    /\ Events(IsMutatingReq)[2].resp = "fail"

====
